---------------------------- MODULE Spec2Model ----------------------------
(***************************************************************************)
(* Model of the grocery-list storage accessor (db.ts, first variant in     *)
(* src/unnamed/part_001, lines 1-225), of the add/edit form                *)
(* (src/src/components/AddItemModal.tsx) and of the start of the           *)
(* application (Page and GroceryList in src/unnamed/part_000).             *)
(*                                                                         *)
(* Spec: the accessor calls, one call at a time.  SpecSeed: initDatabase   *)
(* with failures of its seeding.  SpecConn: getDatabase under overlapping  *)
(* calls.  SpecPage, SpecPageLive: the start of the application.           *)
(* SpecForm: the form in front of the store.                               *)
(*                                                                         *)
(* Text values are sequences of one-character strings so that trim() and   *)
(* parseInt() are computed, not assumed.  The Vietnamese sample names are  *)
(* transliterated to ASCII.                                                *)
(***************************************************************************)
EXTENDS Integers, Sequences, FiniteSets, TLC

(***************************************************************************)
(* Bounds of the model.                                                    *)
(***************************************************************************)
\* addItem and the seeding of initDatabase insert only while the AUTOINCREMENT
\* counter is below MaxId
MaxId == 4
\* largest value of the millisecond clock
MaxTime == 1
\* accessor calls that can be in progress at the same time
MaxCallers == 3
\* getDatabase opens the database only while fewer than MaxOpens opens were made
MaxOpens == 3

(***************************************************************************)
(* Text constants.                                                         *)
(***************************************************************************)
Empty == << >>
Milk == <<"M", "i", "l", "k">>
Drinks == <<"D", "r", "i", "n", "k", "s">>
Tea == <<"T", "e", "a">>

\* sampleItems of seedSampleData ("Sua", "Trung", "Banh mi")
sampleItems ==
  << [name |-> <<"S", "u", "a">>, quantity |-> 2,
      category |-> <<"D", "o", " ", "u", "o", "n", "g">>],
     [name |-> <<"T", "r", "u", "n", "g">>, quantity |-> 10,
      category |-> <<"T", "u", "o", "i">>],
     [name |-> <<"B", "a", "n", "h", " ", "m", "i">>, quantity |-> 1,
      category |-> <<"K", "h", "o">>] >>

VARIABLES
  platform,    \* Platform.OS: "web" or "native"
  db,          \* module variable db: FALSE = null, TRUE = the open connection
  dbPromise,   \* module variable dbPromise: "null", "resolved" or "rejected"
  tableExists, \* grocery_items has been created in grocery.db
  table,       \* the rows of grocery_items
  seq,         \* sqlite_sequence entry of grocery_items (AUTOINCREMENT)
  now,         \* Date.now()
  lastOp,      \* the last accessor call: its arguments and what it returned
  prev,        \* the rows of grocery_items when lastOp was called
  roundTrip,   \* history: a toggleBoughtStatus(id, 1) and the (id, 0) right after it
  scen,        \* history: how far the calls so far follow the Milk scenario
  form,        \* AddItemModal: its props, state and alerts
  opens,       \* getDatabase step by step: the outcome of each open so far
  awaited,     \* getDatabase step by step: the open dbPromise is the promise of
  held,        \* getDatabase step by step: the open whose connection db holds
  callers,     \* getDatabase step by step: where each accessor call stands
  page         \* Page: its state and what it renders

connVars == <<platform, db, dbPromise>>
storeVars == <<tableExists, table, seq, now>>
obsVars == <<lastOp, prev, roundTrip, scen>>
\* opens, awaited, held and callers are kept by the steps of getDatabase under
\* interleaving (SpecConn); the calls that run getDatabase as one step leave them
asyncVars == <<opens, awaited, held, callers>>
vars == <<platform, db, dbPromise, tableExists, table, seq, now, lastOp, prev,
          roundTrip, scen, form, opens, awaited, held, callers, page>>


(***************************************************************************)
(* SQL statements over grocery_items, as functions of the rows.            *)
(***************************************************************************)
Ids(rows) == {r.id : r \in rows}

\* InsertRow with a fault: the INSERT leaves quantity to the column's DEFAULT 1
InsertRowDefaultQuantity(rows, id, name, quantity, category, t) ==
  rows \cup {[id |-> id, name |-> name, quantity |-> 1,
              category |-> category, bought |-> 0, created_at |-> t]}

\* INSERT INTO grocery_items (name, quantity, category, bought, created_at)
\* VALUES (?, ?, ?, 0, ?), the id being the next AUTOINCREMENT value
InsertRow(rows, id, name, quantity, category, t) ==
  rows \cup {[id |-> id, name |-> name, quantity |-> quantity,
              category |-> category, bought |-> 0, created_at |-> t]}

\* UpdateRow with a fault: the UPDATE has no WHERE clause
UpdateRowAll(rows, id, name, quantity, category) ==
  {[r EXCEPT !.name = name, !.quantity = quantity, !.category = category] : r \in rows}

\* UPDATE grocery_items SET name = ?, quantity = ?, category = ? WHERE id = ?
UpdateRow(rows, id, name, quantity, category) ==
  {IF r.id = id
     THEN [r EXCEPT !.name = name, !.quantity = quantity, !.category = category]
     ELSE r : r \in rows}

\* SetBought with a fault: the UPDATE has no WHERE clause
SetBoughtAll(rows, id, bought) == {[r EXCEPT !.bought = bought] : r \in rows}

\* SetBought with a fault: the UPDATE also sets created_at to the time of the call
SetBoughtTouch(rows, id, bought) ==
  {IF r.id = id THEN [r EXCEPT !.bought = bought, !.created_at = now] ELSE r :
   r \in rows}

\* UPDATE grocery_items SET bought = ? WHERE id = ?
SetBought(rows, id, bought) ==
  {IF r.id = id THEN [r EXCEPT !.bought = bought] ELSE r : r \in rows}

\* DeleteRow with a fault: the comparison is <= instead of =
DeleteRowUpTo(rows, id) == {r \in rows : r.id > id}

\* DELETE FROM grocery_items WHERE id = ?
DeleteRow(rows, id) == {r \in rows : r.id # id}

\* DeleteBought with a fault: the DELETE has no WHERE clause
DeleteBoughtAll(rows) == {}

\* DELETE FROM grocery_items WHERE bought = 1
DeleteBought(rows) == {r \in rows : r.bought # 1}

\* rows matched by WHERE id = ? (the statement's `changes`)
Matching(rows, id) == Cardinality({r \in rows : r.id = id})

\* First with a fault: ORDER BY created_at ASC
FirstOldest(rows, asc) ==
  CHOOSE x \in rows : \A y \in rows :
    \/ x.created_at < y.created_at
    \/ x.created_at = y.created_at /\ (IF asc THEN x.id <= y.id ELSE x.id >= y.id)

\* SELECT * FROM grocery_items ORDER BY created_at DESC.  created_at is the
\* only sort key, so SQL leaves the order of rows with equal created_at to the
\* engine: it may keep them in scan order (rowid ascending, asc = TRUE) or not
\* (here: rowid descending).
First(rows, asc) ==
  CHOOSE x \in rows : \A y \in rows :
    \/ x.created_at > y.created_at
    \/ x.created_at = y.created_at /\ (IF asc THEN x.id <= y.id ELSE x.id >= y.id)

RECURSIVE OrderByCreatedAtDesc(_, _)
OrderByCreatedAtDesc(rows, asc) ==
  IF rows = {} THEN << >>
  ELSE LET r == First(rows, asc)
       IN <<r>> \o OrderByCreatedAtDesc(rows \ {r}, asc)

SelectAllOrdered(rows) ==
  {OrderByCreatedAtDesc(rows, asc) : asc \in BOOLEAN}

(***************************************************************************)
(* getDatabase: the connection a call gets.  openFails says whether        *)
(* openDatabaseAsync/openDatabaseSync throws if this call opens.           *)
(***************************************************************************)
\* Opens with a fault: getDatabase does not look at dbPromise
OpensWhilePending == db = FALSE

\* getDatabase gets past its two checks and opens the database
Opens == db = FALSE /\ dbPromise = "null"

GetDatabase(openFails) ==
  IF db THEN [ok |-> TRUE, db |-> db, dbPromise |-> dbPromise]
  ELSE IF dbPromise # "null"
    \* an earlier promise is returned as it is
    THEN [ok |-> dbPromise = "resolved", db |-> db, dbPromise |-> dbPromise]
  ELSE IF ~openFails
    THEN [ok |-> TRUE, db |-> TRUE, dbPromise |-> "resolved"]
  \* web: the open is awaited, so dbPromise already holds the promise when the
  \* catch block resets it to null.  native: openDatabaseSync throws before the
  \* async function returns, so `dbPromise = null` runs first and the
  \* assignment of the rejected promise to dbPromise runs after it.
  ELSE [ok |-> FALSE, db |-> FALSE,
        dbPromise |-> IF platform = "web" THEN "null" ELSE "rejected"]

(***************************************************************************)
(* What a call returned.                                                   *)
(***************************************************************************)
NoOp ==
  [op |-> "none", id |-> 0, name |-> Empty, quantity |-> 0, category |-> Empty,
   bought |-> 0, fault |-> "none", hadTable |-> FALSE, callTime |-> 0,
   threw |-> FALSE, ok |-> FALSE, rowId |-> 0, changes |-> 0, rows |-> << >>]

\* the failure behind a call: opening the connection, or the statement
\* (which also fails when grocery_items does not exist)
Fault(conn, stmtFails) ==
  IF ~conn.ok THEN "open"
  ELSE IF stmtFails \/ ~tableExists THEN "stmt"
  ELSE "none"

\* Caught with a fault: the accessor has no catch block
Uncaught(r) == r

\* catch (error) { console.error(...); return false / null; }
Caught(r) ==
  IF r.threw THEN [r EXCEPT !.threw = FALSE, !.ok = FALSE, !.rowId = 0, !.changes = 0]
  ELSE r

\* catch (error) { console.error(...); return []; }
CaughtList(r) ==
  IF r.threw THEN [r EXCEPT !.threw = FALSE, !.ok = FALSE, !.rows = << >>] ELSE r

(***************************************************************************)
(* History of the calls, kept for the properties; the calls do not read it.*)
(***************************************************************************)
NoTrip == [phase |-> "none", id |-> 0, rows |-> {}]

\* the Milk scenario: 1 initDatabase on a store without the table, all three
\* sample rows inserted; 2 addItem("Milk", 2, "Drinks"); 3 getAllItems;
\* 4 toggleBoughtStatus(id of the new row, 1); 5 deleteAllBoughtItems;
\* 6 getAllItems; every call succeeding.  0: the calls are not this scenario.
ScenStep(o) ==
  IF ~o.ok THEN 0
  ELSE IF o.op = "initDatabase" /\ ~o.hadTable /\ o.changes = 3 THEN 1
  ELSE IF /\ scen = 1 /\ o.op = "addItem" /\ o.name = Milk /\ o.quantity = 2
          /\ o.category = Drinks THEN 2
  ELSE IF scen = 2 /\ o.op = "getAllItems" THEN 3
  ELSE IF /\ scen = 3 /\ o.op = "toggleBoughtStatus" /\ o.id = seq
          /\ o.bought = 1 THEN 4
  ELSE IF scen = 4 /\ o.op = "deleteAllBoughtItems" THEN 5
  ELSE IF scen = 5 /\ o.op = "getAllItems" THEN 6
  ELSE 0

\* o is what the call of this step returned
Track(o) ==
  /\ roundTrip' =
       IF o.op = "toggleBoughtStatus" /\ o.ok /\ o.bought = 1
         THEN [phase |-> "set", id |-> o.id, rows |-> table]
       ELSE IF /\ o.op = "toggleBoughtStatus" /\ o.ok /\ o.bought = 0
               /\ roundTrip.phase = "set" /\ roundTrip.id = o.id
         THEN [roundTrip EXCEPT !.phase = "done"]
       ELSE NoTrip
  /\ scen' = ScenStep(o)

(***************************************************************************)
(* AddItemModal.                                                           *)
(***************************************************************************)
\* visible and editItem are props (editItem: the id of the row, 0 for null);
\* name, quantity and category are the texts in the three inputs; alert is the
\* last Alert.alert; refreshed and closed say whether the last handleSave
\* called onItemAdded and onClose; entered and enteredName are the quantity
\* and name texts the last handleSave read.
FormClosed ==
  [visible |-> FALSE, editItem |-> 0, name |-> Empty, quantity |-> <<"1">>,
   category |-> Empty, nameError |-> FALSE, isSubmitting |-> FALSE,
   alert |-> "none", refreshed |-> FALSE, closed |-> FALSE, entered |-> Empty,
   enteredName |-> Empty]

\* an accessor call that is not in progress.  pc: "idle", "awaiting" (the call
\* awaits getDatabase()), "using" (it got the connection `got` and runs its
\* statement), "failed" (the await threw); waits: the open whose promise the
\* call awaits, 0 when getDatabase returned db itself.
Idle == [pc |-> "idle", waits |-> 0, got |-> 0]

Callers == 1..MaxCallers

\* Page before its effect ran: the useState defaults, nothing but the spinner
\* rendered.  step: where setupDatabase stands; listMounted: GroceryList has
\* been rendered; listLoads: how many times its loadItems called getAllItems.
PageStart ==
  [isLoading |-> TRUE, dbInitialized |-> FALSE, step |-> "start",
   success |-> FALSE, listMounted |-> FALSE, listLoads |-> 0]

Faults == {"none", "open", "stmt"}

FaultAllowed(fault) == fault = "open" => Opens

Init ==
  /\ platform \in {"web", "native"}
  /\ db = FALSE
  /\ dbPromise = "null"
  /\ tableExists = FALSE
  /\ table = {}
  /\ seq = 0
  /\ now = 0
  /\ lastOp = NoOp
  /\ prev = {}
  /\ roundTrip = NoTrip
  /\ scen = 0
  /\ form = FormClosed
  /\ opens = << >>
  /\ awaited = 0
  /\ held = 0
  /\ callers = [c \in Callers |-> Idle]
  /\ page = PageStart

(***************************************************************************)
(* The accessor calls.                                                     *)
(***************************************************************************)
\* addItem(name, quantity, category); dt is the time that passes before
\* Date.now() is read
AddItemCall(name, quantity, category, fault, dt) ==
  LET conn == GetDatabase(fault = "open")
      f == Fault(conn, fault = "stmt")
      id == seq + 1
  IN /\ FaultAllowed(fault)
     /\ seq < MaxId
     /\ now + dt <= MaxTime
     /\ db' = conn.db
     /\ dbPromise' = conn.dbPromise
     /\ now' = now + dt
     /\ IF f = "none"
          THEN /\ table' = InsertRow(table, id, name, quantity, category, now')
               /\ seq' = id
          ELSE UNCHANGED <<table, seq>>
     /\ lastOp' = Caught([NoOp EXCEPT !.op = "addItem", !.name = name,
                            !.quantity = quantity, !.category = category,
                            !.fault = f, !.hadTable = tableExists, !.callTime = now,
                            !.threw = f # "none", !.ok = f = "none",
                            !.rowId = IF f = "none" THEN id ELSE 0,
                            !.changes = IF f = "none" THEN 1 ELSE 0])
     /\ prev' = table
     /\ Track(lastOp')
     /\ UNCHANGED <<platform, tableExists, asyncVars, page>>

\* addItem called from outside the form
AddItem(name, quantity, category, fault, dt) ==
  AddItemCall(name, quantity, category, fault, dt) /\ UNCHANGED form

\* updateItem(id, name, quantity, category)
UpdateItemCall(id, name, quantity, category, fault) ==
  LET conn == GetDatabase(fault = "open")
      f == Fault(conn, fault = "stmt")
  IN /\ FaultAllowed(fault)
     /\ db' = conn.db
     /\ dbPromise' = conn.dbPromise
     /\ table' = IF f = "none" THEN UpdateRow(table, id, name, quantity, category)
                 ELSE table
     /\ lastOp' = Caught([NoOp EXCEPT !.op = "updateItem", !.id = id, !.name = name,
                            !.quantity = quantity, !.category = category,
                            !.fault = f, !.hadTable = tableExists, !.callTime = now,
                            !.threw = f # "none", !.ok = f = "none",
                            !.changes = IF f = "none" THEN Matching(table, id) ELSE 0])
     /\ prev' = table
     /\ Track(lastOp')
     /\ UNCHANGED <<platform, tableExists, seq, now, asyncVars, page>>

\* updateItem called from outside the form
UpdateItem(id, name, quantity, category, fault) ==
  UpdateItemCall(id, name, quantity, category, fault) /\ UNCHANGED form

\* toggleBoughtStatus(id, bought)
ToggleBoughtStatus(id, bought, fault) ==
  LET conn == GetDatabase(fault = "open")
      f == Fault(conn, fault = "stmt")
  IN /\ FaultAllowed(fault)
     /\ db' = conn.db
     /\ dbPromise' = conn.dbPromise
     /\ table' = IF f = "none" THEN SetBought(table, id, bought) ELSE table
     /\ lastOp' = Caught([NoOp EXCEPT !.op = "toggleBoughtStatus", !.id = id,
                            !.bought = bought,
                            !.fault = f, !.hadTable = tableExists, !.callTime = now,
                            !.threw = f # "none", !.ok = f = "none",
                            !.changes = IF f = "none" THEN Matching(table, id) ELSE 0])
     /\ prev' = table
     /\ Track(lastOp')
     /\ UNCHANGED <<platform, tableExists, seq, now, form, asyncVars, page>>

\* deleteItem(id)
DeleteItem(id, fault) ==
  LET conn == GetDatabase(fault = "open")
      f == Fault(conn, fault = "stmt")
  IN /\ FaultAllowed(fault)
     /\ db' = conn.db
     /\ dbPromise' = conn.dbPromise
     /\ table' = IF f = "none" THEN DeleteRow(table, id) ELSE table
     /\ lastOp' = Caught([NoOp EXCEPT !.op = "deleteItem", !.id = id,
                            !.fault = f, !.hadTable = tableExists, !.callTime = now,
                            !.threw = f # "none", !.ok = f = "none",
                            !.changes = IF f = "none" THEN Matching(table, id) ELSE 0])
     /\ prev' = table
     /\ Track(lastOp')
     /\ UNCHANGED <<platform, tableExists, seq, now, form, asyncVars, page>>

\* deleteAllBoughtItems()
DeleteAllBoughtItems(fault) ==
  LET conn == GetDatabase(fault = "open")
      f == Fault(conn, fault = "stmt")
  IN /\ FaultAllowed(fault)
     /\ db' = conn.db
     /\ dbPromise' = conn.dbPromise
     /\ table' = IF f = "none" THEN DeleteBought(table) ELSE table
     /\ lastOp' = Caught([NoOp EXCEPT !.op = "deleteAllBoughtItems",
                            !.fault = f, !.hadTable = tableExists, !.callTime = now,
                            !.threw = f # "none", !.ok = f = "none",
                            !.changes = IF f = "none"
                                          THEN Cardinality(table \ DeleteBought(table))
                                          ELSE 0])
     /\ prev' = table
     /\ Track(lastOp')
     /\ UNCHANGED <<platform, tableExists, seq, now, form, asyncVars, page>>

\* clearAllItems()
ClearAllItems(fault) ==
  LET conn == GetDatabase(fault = "open")
      f == Fault(conn, fault = "stmt")
  IN /\ FaultAllowed(fault)
     /\ db' = conn.db
     /\ dbPromise' = conn.dbPromise
     /\ table' = IF f = "none" THEN {} ELSE table
     /\ lastOp' = Caught([NoOp EXCEPT !.op = "clearAllItems",
                            !.fault = f, !.hadTable = tableExists, !.callTime = now,
                            !.threw = f # "none", !.ok = f = "none",
                            !.changes = IF f = "none" THEN Cardinality(table) ELSE 0])
     /\ prev' = table
     /\ Track(lastOp')
     /\ UNCHANGED <<platform, tableExists, seq, now, form, asyncVars, page>>

\* getAllItems()
GetAllItemsCall(fault) ==
  LET conn == GetDatabase(fault = "open")
      f == Fault(conn, fault = "stmt")
  IN /\ FaultAllowed(fault)
     /\ db' = conn.db
     /\ dbPromise' = conn.dbPromise
     /\ \E rows \in (IF f = "none" THEN SelectAllOrdered(table) ELSE {<< >>}) :
          /\ lastOp' = CaughtList([NoOp EXCEPT !.op = "getAllItems",
                                     !.fault = f, !.hadTable = tableExists,
                                     !.callTime = now, !.threw = f # "none",
                                     !.ok = f = "none", !.rows = rows])
          /\ Track(lastOp')
     /\ prev' = table
     /\ UNCHANGED <<platform, tableExists, table, seq, now, form, asyncVars>>

\* getAllItems called from outside the list view's mount
GetAllItems(fault) == GetAllItemsCall(fault) /\ UNCHANGED page

(***************************************************************************)
(* initDatabase and seedSampleData.                                        *)
(***************************************************************************)
\* SampleRows with a fault: the INSERT writes bought = 1
SampleRowsBought(s, n, ts) ==
  {[id |-> s + i, name |-> sampleItems[i].name, quantity |-> sampleItems[i].quantity,
    category |-> sampleItems[i].category, bought |-> 1, created_at |-> ts[i]] :
   i \in 1..n}

\* the first n rows of sampleItems, inserted after the AUTOINCREMENT value s at
\* the times ts[1..n]
SampleRows(s, n, ts) ==
  {[id |-> s + i, name |-> sampleItems[i].name, quantity |-> sampleItems[i].quantity,
    category |-> sampleItems[i].category, bought |-> 0, created_at |-> ts[i]] :
   i \in 1..n}

\* SeedSampleData with a fault: the rows are inserted without the count check
SeedAlways(rows, s, countFails, n, ts) ==
  [table |-> rows \cup SampleRows(s, n, ts), seq |-> s + n,
   now |-> IF n = 0 THEN now ELSE ts[n], seeded |-> n]

\* seedSampleData(), called once the table exists: countFails says whether
\* SELECT COUNT(*) throws, n how many of the three INSERTs run before one
\* throws (3: none throws), ts when each reads Date.now().  The catch block
\* swallows the error, so the rows inserted before it stay.
SeedSampleData(rows, s, countFails, n, ts) ==
  IF ~countFails /\ Cardinality(rows) = 0
    THEN [table |-> rows \cup SampleRows(s, n, ts), seq |-> s + n,
          now |-> IF n = 0 THEN now ELSE ts[n], seeded |-> n]
    ELSE [table |-> rows, seq |-> s, now |-> now, seeded |-> 0]

\* SeedThrows with a fault: seedSampleData has no catch block
SeedRethrows(countFails, n) == countFails \/ n < 3

\* whether seedSampleData throws to initDatabase when SELECT COUNT(*) fails or
\* only n of the INSERTs run: its catch block logs the error and returns
SeedThrows(countFails, n) == FALSE

\* what may fail in initDatabase: the open, CREATE TABLE, SELECT COUNT(*), an INSERT
InitFaults == {"none", "open", "stmt", "count", "seed"}

\* the times of the three INSERTs when d[i] passes before the i-th
SeedTimes(d) == [i \in 1..3 |-> IF i = 1 THEN now + d[1]
                                 ELSE IF i = 2 THEN now + d[1] + d[2]
                                 ELSE now + d[1] + d[2] + d[3]]

\* initDatabase()
InitDatabaseCall(fault, n, d) ==
  LET conn == GetDatabase(fault = "open")
      created == conn.ok /\ fault # "stmt"
      seeds == created /\ fault # "count" /\ table = {}
      ts == SeedTimes(d)
      seed == SeedSampleData(table, seq, fault = "count", n, ts)
      f == IF ~conn.ok THEN "open"
           ELSE IF ~created THEN "stmt"
           ELSE IF fault = "count" THEN "count"
           ELSE IF seeds /\ n < 3 THEN "seed"
           ELSE "none"
      seedThrew == created /\ f # "none" /\ SeedThrows(fault = "count", n)
  IN /\ FaultAllowed(fault)
     /\ (fault = "seed") = (n < 3)
     /\ fault = "seed" => seeds
     /\ ~seeds => d = [i \in 1..3 |-> 0]
     /\ seeds => seq < MaxId /\ ts[3] <= MaxTime
     /\ db' = conn.db
     /\ dbPromise' = conn.dbPromise
     /\ tableExists' = (tableExists \/ created)
     /\ IF created
          THEN /\ table' = seed.table
               /\ seq' = seed.seq
               /\ now' = seed.now
          ELSE UNCHANGED <<table, seq, now>>
     /\ lastOp' = Caught([NoOp EXCEPT !.op = "initDatabase",
                            !.fault = f, !.hadTable = tableExists, !.callTime = now,
                            !.threw = ~created \/ seedThrew,
                            !.ok = created /\ ~seedThrew,
                            !.changes = IF created THEN seed.seeded ELSE 0])
     /\ prev' = table
     /\ Track(lastOp')
     /\ UNCHANGED <<platform, form, asyncVars>>

\* initDatabase called from outside the page's mount
InitDatabase(fault, n, d) == InitDatabaseCall(fault, n, d) /\ UNCHANGED page

\* The process ends and starts again: the module variables db and dbPromise
\* are null again, grocery.db keeps its content.
Restart ==
  /\ db' = FALSE
  /\ dbPromise' = "null"
  /\ lastOp' = NoOp
  /\ prev' = {}
  /\ roundTrip' = NoTrip
  /\ scen' = 0
  /\ form' = FormClosed
  /\ UNCHANGED <<platform, tableExists, table, seq, now, asyncVars, page>>

(***************************************************************************)
(* The calls the model makes.                                              *)
(***************************************************************************)
AddInputs ==
  {[name |-> Milk, quantity |-> 2, category |-> Drinks],
   [name |-> Tea, quantity |-> 1, category |-> Empty]}

UpdateInputs == {[name |-> Tea, quantity |-> 5, category |-> Empty]}

\* the ids the calls name: the first id, the last id assigned, and one that
\* was never assigned
IdInputs == {1, seq, seq + 1} \ {0}

Next ==
  \/ \E fault \in Faults, d \in [1..3 -> 0..1] : InitDatabase(fault, 3, d)
  \/ \E i \in AddInputs, fault \in Faults, dt \in 0..1 :
       AddItem(i.name, i.quantity, i.category, fault, dt)
  \/ \E id \in IdInputs, i \in UpdateInputs, fault \in Faults :
       UpdateItem(id, i.name, i.quantity, i.category, fault)
  \/ \E id \in IdInputs, bought \in {0, 1}, fault \in Faults :
       ToggleBoughtStatus(id, bought, fault)
  \/ \E id \in IdInputs, fault \in Faults : DeleteItem(id, fault)
  \/ \E fault \in Faults : DeleteAllBoughtItems(fault)
  \/ \E fault \in Faults : ClearAllItems(fault)
  \/ \E fault \in Faults : GetAllItems(fault)
  \/ Restart

Spec == Init /\ [][Next]_vars


(***************************************************************************)
(* initDatabase with failures of its count and of its INSERTs, on tables   *)
(* the user has filled, changed and emptied.                               *)
(***************************************************************************)
NextSeed ==
  \/ \E fault \in InitFaults, n \in 0..3, d \in [1..3 -> 0..1] :
       InitDatabase(fault, n, d)
  \/ AddItem(Milk, 2, Drinks, "none", 0)
  \/ \E id \in IdInputs : ToggleBoughtStatus(id, 1, "none")
  \/ \E id \in IdInputs : DeleteItem(id, "none")
  \/ ClearAllItems("none")
  \/ Restart

SpecSeed == Init /\ [][NextSeed]_vars


(***************************************************************************)
(* getDatabase step by step, for accessor calls that overlap.  JavaScript  *)
(* runs a call up to its first await without interruption, so a step is    *)
(* the code between two awaits.  opens[k] is the outcome of the k-th open: *)
(* "pending", "resolved" or "rejected".                                    *)
(***************************************************************************)
\* an accessor call starts and runs getDatabase() up to its await.  openFails:
\* openDatabaseSync throws (native; on web the open is awaited and settles in
\* OpenSettles).
CallGetDatabase(c, openFails) ==
  LET k == Len(opens) + 1
  IN /\ callers[c].pc = "idle"
     /\ openFails => Opens /\ platform = "native"
     /\ IF db
          \* if (db) return db
          THEN /\ callers' = [callers EXCEPT ![c] = [pc |-> "awaiting", waits |-> 0,
                                                      got |-> held]]
               /\ UNCHANGED <<db, dbPromise, opens, awaited, held>>
        ELSE IF ~Opens
          \* if (dbPromise) return dbPromise
          THEN /\ callers' = [callers EXCEPT ![c] = [pc |-> "awaiting",
                                                      waits |-> awaited, got |-> 0]]
               /\ UNCHANGED <<db, dbPromise, opens, awaited, held>>
        \* dbPromise = (async () => { ... })()
        ELSE /\ k <= MaxOpens
             /\ callers' = [callers EXCEPT ![c] = [pc |-> "awaiting", waits |-> k,
                                                    got |-> 0]]
             /\ awaited' = k
             /\ IF platform = "web"
                  \* db = await SQLite.openDatabaseAsync(...): the function stops here
                  THEN /\ opens' = Append(opens, "pending")
                       /\ dbPromise' = "pending"
                       /\ UNCHANGED <<db, held>>
                \* db = SQLite.openDatabaseSync(...); return db
                ELSE IF ~openFails
                  THEN /\ opens' = Append(opens, "resolved")
                       /\ dbPromise' = "resolved"
                       /\ db' = TRUE
                       /\ held' = k
                \* catch: dbPromise = null; throw error.  The function has not
                \* returned yet, so the rejected promise is assigned after that.
                ELSE /\ opens' = Append(opens, "rejected")
                     /\ dbPromise' = "rejected"
                     /\ UNCHANGED <<db, held>>
     /\ UNCHANGED <<platform, tableExists, table, seq, now, lastOp, prev, roundTrip,
                    scen, form, page>>

\* web: openDatabaseAsync of the k-th open settles and the function goes on
OpenSettles(k, openFails) ==
  /\ k \in 1..Len(opens)
  /\ opens[k] = "pending"
  /\ IF ~openFails
       \* db = <the connection>; return db
       THEN /\ opens' = [opens EXCEPT ![k] = "resolved"]
            /\ db' = TRUE
            /\ held' = k
            /\ dbPromise' = IF awaited = k THEN "resolved" ELSE dbPromise
            /\ UNCHANGED awaited
       \* catch: dbPromise = null; throw error
       ELSE /\ opens' = [opens EXCEPT ![k] = "rejected"]
            /\ dbPromise' = "null"
            /\ awaited' = 0
            /\ UNCHANGED <<db, held>>
  /\ UNCHANGED <<platform, tableExists, table, seq, now, lastOp, prev, roundTrip,
                 scen, form, page, callers>>

\* const database = await getDatabase() goes on: with the connection the
\* promise resolved to, or with the error it rejected with
ResumeCall(c) ==
  LET w == callers[c].waits
  IN /\ callers[c].pc = "awaiting"
     /\ w # 0 => opens[w] # "pending"
     /\ callers' = [callers EXCEPT ![c] =
                      IF w = 0 THEN [@ EXCEPT !.pc = "using"]
                      ELSE IF opens[w] = "resolved"
                        THEN [@ EXCEPT !.pc = "using", !.got = w]
                      ELSE [@ EXCEPT !.pc = "failed"]]
     /\ UNCHANGED <<platform, db, dbPromise, tableExists, table, seq, now, lastOp,
                    prev, roundTrip, scen, form, page, opens, awaited, held>>

\* the accessor call ends: its statement ran on the connection, or its catch
\* block returned the failure value
ReturnCall(c) ==
  /\ callers[c].pc \in {"using", "failed"}
  /\ callers' = [callers EXCEPT ![c] = Idle]
  /\ UNCHANGED <<platform, db, dbPromise, tableExists, table, seq, now, lastOp,
                 prev, roundTrip, scen, form, page, opens, awaited, held>>

NextConn ==
  \/ \E c \in Callers, openFails \in BOOLEAN : CallGetDatabase(c, openFails)
  \/ \E k \in 1..MaxOpens, openFails \in BOOLEAN : OpenSettles(k, openFails)
  \/ \E c \in Callers : ResumeCall(c)
  \/ \E c \in Callers : ReturnCall(c)

SpecConn == Init /\ [][NextConn]_vars


(***************************************************************************)
(* Page: the start of the application.                                     *)
(***************************************************************************)
\* Renders with a fault: the branch on !dbInitialized is missing
RendersListAlways(p) == IF p.isLoading THEN "spinner" ELSE "list"

\* what Page returns: the spinner, the failure text, or the header and
\* GroceryList
Renders(p) ==
  IF p.isLoading THEN "spinner"
  ELSE IF ~p.dbInitialized THEN "failed"
  ELSE "list"

\* the page after a state update: it renders again, and a GroceryList that is
\* rendered for the first time is mounted
Rendered(p) == [p EXCEPT !.listMounted = p.listMounted \/ Renders(p) = "list"]

\* the effect of Page: setupDatabase() runs up to the return of
\* `await initDatabase()`; an exception would go to the catch block
SetupDatabase(fault, n, d) ==
  /\ page.step = "start"
  /\ InitDatabaseCall(fault, n, d)
  /\ page' = [page EXCEPT !.step = "returned",
                           !.success = ~lastOp'.threw /\ lastOp'.ok]

\* setDbInitialized(success), or setDbInitialized(false) in the catch block
SetDbInitialized ==
  /\ page.step = "returned"
  /\ page' = Rendered([page EXCEPT !.step = "set", !.dbInitialized = page.success])
  /\ UNCHANGED <<platform, db, dbPromise, tableExists, table, seq, now, lastOp,
                 prev, roundTrip, scen, form, asyncVars>>

\* finally { setIsLoading(false); }
SetIsLoading ==
  /\ page.step = "set"
  /\ page' = Rendered([page EXCEPT !.step = "done", !.isLoading = FALSE])
  /\ UNCHANGED <<platform, db, dbPromise, tableExists, table, seq, now, lastOp,
                 prev, roundTrip, scen, form, asyncVars>>

\* the effect of GroceryList, once after its mount: loadItems()
LoadItems(fault) ==
  /\ page.listMounted
  /\ page.listLoads = 0
  /\ GetAllItemsCall(fault)
  /\ page' = [page EXCEPT !.listLoads = 1]

\* the steps of setupDatabase
PageStep ==
  \/ \E fault \in Faults, d \in [1..3 -> 0..1] : SetupDatabase(fault, 3, d)
  \/ SetDbInitialized
  \/ SetIsLoading

\* the list is on the screen and has loaded: the user works on it
ListShown == page.listMounted /\ page.listLoads > 0

NextPage ==
  \/ PageStep
  \/ \E fault \in Faults : LoadItems(fault)
  \/ \E i \in AddInputs : ListShown /\ AddItem(i.name, i.quantity, i.category, "none", 0)
  \/ \E id \in IdInputs, bought \in {0, 1} :
       ListShown /\ ToggleBoughtStatus(id, bought, "none")
  \/ \E id \in IdInputs : ListShown /\ DeleteItem(id, "none")

SpecPage == Init /\ [][NextPage]_vars

\* the event loop runs every continuation that is ready, and the calls of
\* expo-sqlite settle: setupDatabase does not stop half way
SpecPageLive == SpecPage /\ WF_vars(PageStep)


(***************************************************************************)
(* Text, as JavaScript's String.prototype.trim and parseInt treat it.      *)
(***************************************************************************)
IsSpace(c) == c = " "

RECURSIVE TrimStart(_)
TrimStart(s) ==
  IF s # << >> /\ IsSpace(Head(s)) THEN TrimStart(Tail(s)) ELSE s

RECURSIVE TrimEnd(_)
TrimEnd(s) ==
  IF s # << >> /\ IsSpace(s[Len(s)]) THEN TrimEnd(SubSeq(s, 1, Len(s) - 1)) ELSE s

\* name.trim()
Trim(s) == TrimEnd(TrimStart(s))

Digits == <<"0", "1", "2", "3", "4", "5", "6", "7", "8", "9">>

IsDigit(c) == \E i \in 1..10 : Digits[i] = c

DigitValue(c) == (CHOOSE i \in 1..10 : Digits[i] = c) - 1

\* the value of the longest prefix of s made of digits, after acc
RECURSIVE DigitsPrefix(_, _, _)
DigitsPrefix(s, acc, any) ==
  IF s # << >> /\ IsDigit(Head(s))
    THEN DigitsPrefix(Tail(s), acc * 10 + DigitValue(Head(s)), TRUE)
    ELSE [nan |-> ~any, val |-> acc]

\* parseInt(s): leading white space is skipped, then an optional sign, then
\* digits up to the first other character; NaN when there is no digit
ParseInt(s) ==
  LET t == TrimStart(s)
      neg == t # << >> /\ Head(t) = "-"
      signed == t # << >> /\ (Head(t) = "-" \/ Head(t) = "+")
      p == DigitsPrefix(IF signed THEN Tail(t) ELSE t, 0, FALSE)
  IN [nan |-> p.nan, val |-> IF neg THEN 0 - p.val ELSE p.val]

\* parseInt(quantity) || 1: NaN and 0 are falsy
QuantityNum(s) ==
  LET p == ParseInt(s)
  IN IF p.nan \/ p.val = 0 THEN 1 ELSE p.val

\* ValidateForm with a fault: the name is tested without trim()
ValidateFormRaw(name) == name # << >>

\* validateForm(): !name.trim() is true of the empty string only
ValidateForm(name) == Trim(name) # << >>

\* n.toString() of an integer
RECURSIVE NatToString(_)
NatToString(n) ==
  IF n < 10 THEN <<Digits[n + 1]>>
  ELSE NatToString(n \div 10) \o <<Digits[(n % 10) + 1]>>

QuantityToString(n) == IF n < 0 THEN <<"-">> \o NatToString(0 - n) ELSE NatToString(n)

(***************************************************************************)
(* The form's handlers.                                                    *)
(***************************************************************************)
\* the form as the effect on [editItem, visible] leaves it: filled from the
\* row r to edit
Filled(r) ==
  [FormClosed EXCEPT !.visible = TRUE, !.editItem = r.id, !.name = r.name,
                     !.quantity = QuantityToString(r.quantity), !.category = r.category]

\* the parent shows the modal, to add (id = 0) or to edit the row id; the
\* effect on [editItem, visible] fills or resets the form
Show(id) ==
  /\ ~form.visible
  /\ id # 0 => id \in Ids(table)
  /\ form' = IF id = 0 THEN [FormClosed EXCEPT !.visible = TRUE]
             ELSE Filled(CHOOSE r \in table : r.id = id)
  /\ UNCHANGED <<platform, db, dbPromise, tableExists, table, seq, now,
                 lastOp, prev, roundTrip, scen, asyncVars, page>>

\* handleCancel(): resetForm(); onClose().  The button is disabled while
\* isSubmitting.
HandleCancel ==
  /\ form.visible
  /\ ~form.isSubmitting
  /\ form' = FormClosed
  /\ UNCHANGED <<platform, db, dbPromise, tableExists, table, seq, now,
                 lastOp, prev, roundTrip, scen, asyncVars, page>>

\* the form after the user has typed name, quantity and category into the
\* three inputs (onChangeText: setName, which also clears the error,
\* setQuantity, setCategory)
Typed(name, quantity, category) ==
  [form EXCEPT !.name = name, !.quantity = quantity, !.category = category,
               !.nameError = IF name = form.name THEN form.nameError ELSE FALSE]

\* Saved with a fault: the result of the accessor call is not looked at
SavedAnyway(typed, success) ==
  [FormClosed EXCEPT !.alert = "success", !.refreshed = TRUE, !.closed = TRUE,
                     !.entered = typed.quantity, !.enteredName = typed.name]

\* the form typed, after the accessor call of handleSave returned with
\* success or not
Saved(typed, success) ==
  IF success
    \* alert, resetForm(), onItemAdded(), onClose(), finally setIsSubmitting(false)
    THEN [FormClosed EXCEPT !.alert = "success", !.refreshed = TRUE,
                            !.closed = TRUE, !.entered = typed.quantity,
                            !.enteredName = typed.name]
    \* alert, finally setIsSubmitting(false)
    ELSE [typed EXCEPT !.nameError = FALSE, !.isSubmitting = FALSE,
                       !.alert = "failure", !.refreshed = FALSE,
                       !.closed = FALSE, !.entered = typed.quantity,
                       !.enteredName = typed.name]

\* the user types name, quantity and category and presses Save (disabled
\* while isSubmitting): handleSave()
HandleSave(name, quantity, category, fault, dt) ==
  /\ form.visible
  /\ ~form.isSubmitting
  /\ IF ~ValidateForm(name)
       THEN /\ form' = [Typed(name, quantity, category) EXCEPT
                          !.nameError = TRUE, !.alert = "validation",
                          !.refreshed = FALSE, !.closed = FALSE,
                          !.entered = quantity, !.enteredName = name]
            /\ UNCHANGED <<platform, db, dbPromise, tableExists, table, seq, now,
                           lastOp, prev, roundTrip, scen, asyncVars, page>>
       ELSE /\ IF form.editItem # 0
                 THEN /\ dt = 0
                      /\ UpdateItemCall(form.editItem, Trim(name), QuantityNum(quantity),
                                        Trim(category), fault)
                 ELSE AddItemCall(Trim(name), QuantityNum(quantity), Trim(category),
                                  fault, dt)
            \* updateItem returns a boolean, addItem the new id or null
            \* setIsSubmitting(true) came before the call
            /\ form' = Saved([Typed(name, quantity, category) EXCEPT
                                !.isSubmitting = TRUE], lastOp'.ok)

(***************************************************************************)
(* The form in front of the store.                                         *)
(***************************************************************************)
NameInputs == {Empty, <<" ">>, <<" ">> \o Milk \o <<" ">>}

QuantityInputs ==
  {Empty, <<"a">>, <<"0">>, <<"-", "5">>, <<"2">>}

CategoryInputs == {Drinks \o <<" ">>}

\* the clock does not matter to the form: here no time passes inside a call
NextForm ==
  \* Page calls initDatabase once, before the list and the form are shown
  \/ lastOp.op = "none" /\ InitDatabase("none", 3, [i \in 1..3 |-> 0])
  \/ \E id \in {0} \cup IdInputs : Show(id)
  \/ HandleCancel
  \/ \E name \in NameInputs, quantity \in QuantityInputs, category \in CategoryInputs,
        fault \in {"none", "stmt"} :
       HandleSave(name, quantity, category, fault, 0)

SpecForm == Init /\ [][NextForm]_vars


(***************************************************************************)
(* Properties.  Called(op) and Succeeded(op): the last call was op, and it *)
(* returned its success value.                                             *)
(***************************************************************************)
Called(op) == lastOp.op = op

Succeeded(op) == lastOp.op = op /\ lastOp.ok

Range(s) == {s[i] : i \in 1..Len(s)}

\* C1: after a successful addItem the table holds the previous rows and
\* exactly one new row, which carries the given name, quantity and category,
\* bought = 0, an id that no previous row has and that addItem returned, and a
\* created_at not before the time of the call; a successful getAllItems
\* returns exactly the rows of the table, each once.
C1_AddThenList ==
  /\ Succeeded("addItem") =>
       \E r \in table :
         /\ r \notin prev
         /\ table = prev \cup {r}
         /\ r.name = lastOp.name
         /\ r.quantity = lastOp.quantity
         /\ r.category = lastOp.category
         /\ r.bought = 0
         /\ r.id = lastOp.rowId
         /\ r.id \notin Ids(prev)
         /\ r.created_at >= lastOp.callTime
  /\ Succeeded("getAllItems") =>
       /\ Range(lastOp.rows) = table
       /\ Len(lastOp.rows) = Cardinality(table)

\* an addItem succeeded on a table that already had rows, some time after the call
C1_Witness ==
  /\ Succeeded("addItem")
  /\ prev # {}
  /\ \E r \in table : r.id = lastOp.rowId /\ r.created_at > lastOp.callTime

\* C2: after a successful deleteAllBoughtItems no row with bought = 1 remains
\* and the rows left are exactly the previous rows that did not have
\* bought = 1, unchanged.
C2_RemoveAllBought ==
  Succeeded("deleteAllBoughtItems") =>
    /\ \A r \in table : r.bought # 1
    /\ \A r \in prev : r.bought = 0 => r \in table
    /\ table \subseteq prev
    /\ lastOp.changes = Cardinality({r \in prev : r.bought = 1})

\* deleteAllBoughtItems ran on a table with bought and not bought rows
C2_Witness ==
  /\ Succeeded("deleteAllBoughtItems")
  /\ \E r \in prev : r.bought = 1
  /\ \E r \in prev : r.bought = 0

\* C3: a successful updateItem(id, name, quantity, category) gives the row id,
\* if there is one, the given name, quantity and category, keeps its id, bought
\* and created_at, and keeps every other row; with no row id the table is
\* unchanged; and updateItem returns true whenever neither the open nor the
\* statement fails, whether or not the row exists.
C3_Update ==
  /\ Succeeded("updateItem") =>
       /\ table = {IF r.id = lastOp.id
                     THEN [id |-> r.id, name |-> lastOp.name,
                           quantity |-> lastOp.quantity, category |-> lastOp.category,
                           bought |-> r.bought, created_at |-> r.created_at]
                     ELSE r : r \in prev}
       /\ lastOp.id \notin Ids(prev) => table = prev
  /\ (Called("updateItem") /\ lastOp.fault = "none") => lastOp.ok

\* updateItem changed one row of several
C3_Witness ==
  /\ Succeeded("updateItem")
  /\ lastOp.id \in Ids(prev)
  /\ Cardinality(prev) >= 2
  /\ table # prev

\* C4: a successful toggleBoughtStatus(id, bought) changes only the bought
\* flag of the row id; after toggleBoughtStatus(id, 1) and then
\* toggleBoughtStatus(id, 0) the row id has bought = 0 and everything else is
\* as it was before the two calls.
C4_ToggleRoundTrip ==
  /\ Succeeded("toggleBoughtStatus") =>
       table = {IF r.id = lastOp.id THEN [r EXCEPT !.bought = lastOp.bought] ELSE r :
                r \in prev}
  /\ roundTrip.phase = "done" =>
       table = {IF r.id = roundTrip.id THEN [r EXCEPT !.bought = 0] ELSE r :
                r \in roundTrip.rows}

\* the two calls ran on an existing row, with other rows in the table, one of
\* them bought
C4_Witness ==
  /\ roundTrip.phase = "done"
  /\ roundTrip.id \in Ids(roundTrip.rows)
  /\ \E r \in roundTrip.rows : r.id # roundTrip.id /\ r.bought = 1

\* C5: a successful deleteItem(id) removes the row id and no other; with no
\* row id the table is unchanged; and deleteItem returns true whenever neither
\* the open nor the statement fails, whether or not the row exists.
C5_Remove ==
  /\ Succeeded("deleteItem") =>
       /\ table = {r \in prev : r.id # lastOp.id}
       /\ Cardinality(prev \ table) <= 1
       /\ lastOp.id \notin Ids(prev) => table = prev
  /\ (Called("deleteItem") /\ lastOp.fault = "none") => lastOp.ok

\* deleteItem removed one row of several
C5_Witness ==
  /\ Succeeded("deleteItem")
  /\ lastOp.id \in Ids(prev)
  /\ table # {}

\* the rows of a list, each row of the table once, created_at never increasing
ListsTable(rows) ==
  /\ Range(rows) = table
  /\ Len(rows) = Cardinality(table)
  /\ \A i, j \in 1..Len(rows) : i < j => rows[i].created_at >= rows[j].created_at

\* C6 as stated: a successful getAllItems returns every row once, ordered by
\* created_at descending, so that a row added later (a greater id) never
\* appears after a row added earlier; it changes no row.
C6_AsStated ==
  Succeeded("getAllItems") =>
    /\ ListsTable(lastOp.rows)
    /\ \A i, j \in 1..Len(lastOp.rows) :
         i < j => lastOp.rows[i].id > lastOp.rows[j].id
    /\ table = prev

\* C6 amended: a successful getAllItems returns every row once with
\* created_at never increasing, so that a row never appears after a row with
\* a smaller created_at; rows with equal created_at come in either order; it
\* changes no row.
C6_ListOrdered ==
  Succeeded("getAllItems") =>
    /\ ListsTable(lastOp.rows)
    /\ \A i, j \in 1..Len(lastOp.rows) :
         lastOp.rows[i].created_at > lastOp.rows[j].created_at => i < j
    /\ table = prev

\* a list with rows of different created_at, and a later row after an earlier
\* row of the same created_at
C6_Witness ==
  /\ Succeeded("getAllItems")
  /\ \E i, j \in 1..Len(lastOp.rows) :
       lastOp.rows[i].created_at > lastOp.rows[j].created_at
  /\ \E i, j \in 1..Len(lastOp.rows) :
       /\ i < j
       /\ lastOp.rows[i].created_at = lastOp.rows[j].created_at
       /\ lastOp.rows[i].id < lastOp.rows[j].id

\* C7: no call throws to its caller; when the open or the statement fails,
\* initDatabase, updateItem, toggleBoughtStatus, deleteItem and
\* deleteAllBoughtItems return false, addItem returns null and getAllItems
\* returns the empty list, and the table is as it was.
C7_NoThrow ==
  /\ ~lastOp.threw
  /\ lastOp.fault \in {"open", "stmt"} =>
       /\ ~lastOp.ok
       /\ lastOp.rowId = 0
       /\ lastOp.rows = << >>
       /\ table = prev

\* the INSERT of addItem failed on an existing table with rows
C7_Witness ==
  /\ Called("addItem")
  /\ lastOp.fault = "stmt"
  /\ lastOp.hadTable
  /\ prev # {}

\* C8 as stated: a successful initDatabase on a store that already has the
\* table leaves the rows exactly as they were.
C8_AsStated ==
  (Succeeded("initDatabase") /\ lastOp.hadTable) => table = prev

\* C8 amended: a successful initDatabase leaves the rows exactly as they were
\* when the table holds at least one row; on a table without rows (new, or
\* emptied by the user) it inserts sample rows and nothing else.  So a second
\* call right after a call that left rows changes nothing.
C8_InitKeepsRows ==
  Succeeded("initDatabase") =>
    /\ prev # {} => table = prev /\ lastOp.changes = 0
    /\ prev = {} =>
         /\ Cardinality(table) = lastOp.changes
         /\ \A r \in table : \E i \in 1..3 :
              /\ r.name = sampleItems[i].name
              /\ r.quantity = sampleItems[i].quantity
              /\ r.category = sampleItems[i].category
              /\ r.bought = 0

\* initDatabase succeeded again on a table with rows, one of them changed by
\* the user
C8_Witness ==
  /\ Succeeded("initDatabase")
  /\ lastOp.hadTable
  /\ prev # {}
  /\ \E r \in prev : r.bought = 1

\* the three sample rows as initDatabase inserts them into a new store
IsSample(r, i) ==
  /\ r.id = i
  /\ r.name = sampleItems[i].name
  /\ r.quantity = sampleItems[i].quantity
  /\ r.category = sampleItems[i].category
  /\ r.bought = 0

IsMilk(r, bought) ==
  /\ r.name = Milk
  /\ r.quantity = 2
  /\ r.category = Drinks
  /\ r.bought = bought

\* C9 as stated: in the Milk scenario the first getAllItems returns exactly
\* one row, the Milk row with bought = 0; after the toggle that row has
\* bought = 1; the last getAllItems returns the empty list.
C9_AsStated ==
  /\ scen = 3 => Len(lastOp.rows) = 1 /\ IsMilk(lastOp.rows[1], 0)
  /\ scen = 4 => \E r \in table : r.id = seq /\ IsMilk(r, 1)
  /\ scen = 6 => lastOp.rows = << >>

\* C9 amended: in the Milk scenario, initDatabase having inserted the three
\* sample rows, the first getAllItems returns four rows: the three sample rows
\* and exactly one Milk row with bought = 0; after the toggle that row has
\* bought = 1 and the sample rows are as they were; the last getAllItems
\* returns exactly the three sample rows.
C9_MilkScenario ==
  /\ scen = 3 =>
       /\ Len(lastOp.rows) = 4
       /\ \A i \in 1..3 : \E r \in Range(lastOp.rows) : IsSample(r, i)
       /\ \E r \in Range(lastOp.rows) : r.id = 4 /\ IsMilk(r, 0)
  /\ scen = 4 =>
       /\ \E r \in table : r.id = seq /\ IsMilk(r, 1)
       /\ \A i \in 1..3 : \E r \in table : IsSample(r, i)
  /\ scen = 6 =>
       /\ Len(lastOp.rows) = 3
       /\ \A i \in 1..3 : \E r \in Range(lastOp.rows) : IsSample(r, i)

\* the scenario ran to its end
C9_Witness == scen = 6

\* a text that is a positive integer: digits only, not all of them 0
IsPositiveInteger(s) ==
  /\ s # << >>
  /\ \A i \in 1..Len(s) : IsDigit(s[i])
  /\ \E i \in 1..Len(s) : s[i] # "0"

\* C10 as stated: every row that handleSave stored has a positive quantity,
\* and the quantity stored is 1 whenever the text entered is not a positive
\* integer.
C10_AsStated ==
  form.alert = "success" =>
    /\ lastOp.quantity >= 1
    /\ \A r \in table : r.quantity >= 1
    /\ ~IsPositiveInteger(form.entered) => lastOp.quantity = 1

\* a step keeps the id and created_at of the rows: a row that is in the table
\* before and after the step has its created_at, and an id that comes into the
\* table was never assigned before
KeepsIdentity ==
  /\ \A r \in table, s \in table' : r.id = s.id => r.created_at = s.created_at
  /\ \A s \in table' : s.id \notin Ids(table) => s.id > seq /\ s.id <= seq'

\* C11: in every reachable state no two rows share an id, and in every step
\* every row that stays in the table keeps its id and created_at; updateItem
\* and toggleBoughtStatus neither add nor remove an id; an id, once assigned,
\* is never given to another row.
C11_IdentityStable ==
  /\ [](/\ \A r, s \in table : r.id = s.id => r = s
        /\ \A r \in table : r.id >= 1 /\ r.id <= seq
        /\ (Succeeded("updateItem") \/ Succeeded("toggleBoughtStatus")) =>
              Ids(table) = Ids(prev))
  /\ [][KeepsIdentity]_vars

\* toggleBoughtStatus changed a row some time after its insertion, in a table
\* from which a row with a smaller id had been deleted
C11_Witness ==
  /\ Succeeded("toggleBoughtStatus")
  /\ table # prev
  /\ \E r \in table : r.id = lastOp.id /\ r.created_at < now /\ r.id > 1
  /\ 1 \notin Ids(table)


\* the connections the calls in progress run their statements on
InUse == {callers[c].got : c \in {x \in Callers : callers[x].pc = "using"}}

\* C12: under any interleaving of accessor calls at most one open succeeds,
\* at most one open is in progress at a time, every call that got a
\* connection got the one db holds, and db, once it holds a connection, holds
\* that connection in every later state.
C12_OneConnection ==
  /\ [](/\ Cardinality({k \in 1..Len(opens) : opens[k] = "resolved"}) <= 1
        /\ Cardinality({k \in 1..Len(opens) : opens[k] = "pending"}) <= 1
        /\ InUse \subseteq {held} \ {0}
        /\ db = (held # 0)
        /\ \A c \in Callers : callers[c].pc = "awaiting" /\ callers[c].waits = 0 =>
              callers[c].got = held /\ held # 0)
  /\ [][held # 0 => held' = held /\ db']_vars

\* two calls run on the connection of the second open, the first open having
\* failed; one of them called getDatabase while that open was in progress
C12_Witness ==
  /\ held = 2
  /\ opens[1] = "rejected"
  /\ \E c1, c2 \in Callers :
       /\ c1 # c2
       /\ callers[c1].pc = "using" /\ callers[c1].waits = 2
       /\ callers[c2].pc = "using" /\ callers[c2].waits = 2

\* C13: GroceryList is mounted, and calls getAllItems, only after
\* initDatabase has returned true and setupDatabase has finished; when
\* initDatabase returns false (or throws) the page ends showing the failure
\* text and GroceryList is never mounted; and in every run the page leaves
\* the loading state.
C13_PageStartup ==
  /\ [](/\ page.step = "returned" =>
              Called("initDatabase") /\ page.success = lastOp.ok
        /\ page.listMounted =>
              /\ page.step = "done" /\ page.success
              /\ page.dbInitialized /\ ~page.isLoading
        /\ page.listLoads > 0 => page.listMounted
        /\ lastOp.op \in {"none", "initDatabase"} \/ page.listMounted
        /\ (page.step # "start" /\ ~page.success) =>
              ~page.listMounted /\ page.listLoads = 0
        /\ (page.step = "done" /\ ~page.success) => Renders(page) = "failed"
        /\ page.step = "done" => ~page.isLoading)
  /\ [][page.step = "done" /\ ~page.success => page' = page]_vars
  /\ <>(~page.isLoading)

\* the list was mounted after initDatabase seeded a new store, and its first
\* getAllItems returned the three rows
C13_Witness ==
  /\ page.listMounted
  /\ page.listLoads = 1
  /\ Succeeded("getAllItems")
  /\ Len(lastOp.rows) = 3

\* C14: handleSave with a name that is empty after trim() shows the
\* validation alert, marks the name and makes no accessor call; the name it
\* passes to addItem or updateItem is the trimmed text, which is not empty; so
\* every row has a name that is not empty and has no space at either end.
C14_NameRequired ==
  /\ [](/\ \A r \in table : r.name # Empty /\ Trim(r.name) = r.name
        /\ form.alert = "validation" =>
              /\ Trim(form.enteredName) = Empty
              /\ form.nameError /\ form.visible
        /\ form.alert \in {"success", "failure"} =>
              /\ lastOp.op \in {"addItem", "updateItem"}
              /\ lastOp.name = Trim(form.enteredName)
              /\ lastOp.name # Empty)
  /\ [][(form'.alert = "validation" /\ form' # form) =>
          UNCHANGED <<db, dbPromise, table, seq, lastOp, prev>>]_vars

\* the form, editing a row, was saved with spaces around the name, and
\* updateItem got the name without them
C14_Witness ==
  /\ form.alert = "success"
  /\ Succeeded("updateItem")
  /\ form.enteredName # lastOp.name
  /\ \E r \in table : r.id = lastOp.id /\ r.name = Trim(form.enteredName)

\* C15: a handleSave that passes validation makes one accessor call, addItem
\* when editItem is null and updateItem otherwise, and no second one: it runs
\* at most one statement.  When the call fails the form shows the failure
\* alert, stays visible with the texts as typed, and calls neither
\* onItemAdded nor onClose; only when the call succeeds it calls both and the
\* form is reset and closed.  isSubmitting is false whenever handleSave is
\* not running.
C15_SaveOnce ==
  /\ [](/\ ~form.isSubmitting
        /\ form.alert = "failure" =>
              /\ ~lastOp.ok /\ table = prev
              /\ lastOp.op = IF form.editItem = 0 THEN "addItem" ELSE "updateItem"
              /\ form.visible /\ ~form.refreshed /\ ~form.closed
              /\ form.name = form.enteredName /\ form.quantity = form.entered
              /\ Trim(form.category) = lastOp.category
        /\ form.alert = "success" =>
              /\ lastOp.ok /\ lastOp.op \in {"addItem", "updateItem"}
              /\ form.refreshed /\ form.closed /\ ~form.visible
              /\ form.name = Empty /\ form.quantity = <<"1">> /\ form.category = Empty
        /\ (form.refreshed \/ form.closed) => form.alert = "success")
  /\ [][(form'.alert \in {"success", "failure"} /\ form' # form) =>
          /\ lastOp'.op = IF form.editItem = 0 THEN "addItem" ELSE "updateItem"
          /\ form.editItem # 0 => lastOp'.id = form.editItem
          /\ seq' <= seq + 1
          /\ Cardinality(table') <= Cardinality(table) + 1
          /\ Cardinality(table' \ table) <= 1
          /\ lastOp'.ok = (form'.alert = "success")]_vars

\* updateItem failed for the form editing a row: the form is still open with
\* the texts typed
C15_Witness ==
  /\ form.alert = "failure"
  /\ form.editItem # 0
  /\ lastOp.fault = "stmt"
  /\ form.name = <<" ">> \o Milk \o <<" ">>
  /\ form.quantity = <<"-", "5">>

\* the first n sample rows as seedSampleData inserts them after the
\* AUTOINCREMENT value s, whatever their created_at
SeededAfter(s, n) ==
  {r \in table : \E i \in 1..n :
     /\ r.id = s + i
     /\ r.name = sampleItems[i].name
     /\ r.quantity = sampleItems[i].quantity
     /\ r.category = sampleItems[i].category
     /\ r.bought = 0
     /\ r.created_at >= lastOp.callTime}

\* C16: an initDatabase that got the connection and created the table returns
\* true, whether or not its count or its INSERTs fail.  On a table without
\* rows, when nothing fails, it inserts exactly the three sample rows, each
\* with bought = 0; on a table with at least one row it inserts and changes
\* nothing.  When SELECT COUNT(*) fails nothing is inserted; when an INSERT
\* fails the sample rows inserted before it stay, and nothing else changes.
C16_SeedWhenEmpty ==
  (Called("initDatabase") /\ lastOp.fault \notin {"open", "stmt"}) =>
    /\ lastOp.ok /\ ~lastOp.threw /\ tableExists
    /\ prev # {} => table = prev /\ lastOp.changes = 0
    /\ (prev = {} /\ lastOp.fault = "none") =>
         lastOp.changes = 3 /\ Cardinality(table) = 3
    /\ lastOp.fault = "count" => table = prev
    /\ lastOp.fault = "seed" => prev = {} /\ lastOp.changes < 3
    /\ prev = {} =>
         /\ table = SeededAfter(seq - lastOp.changes, lastOp.changes)
         /\ Cardinality(table) = lastOp.changes
    /\ table # prev => prev = {}

\* initDatabase found the table emptied by the user, and its third INSERT
\* failed: two sample rows with new ids, and true returned
C16_Witness ==
  /\ Called("initDatabase")
  /\ lastOp.fault = "seed"
  /\ lastOp.hadTable
  /\ lastOp.changes = 2
  /\ lastOp.ok
  /\ seq > 2

=============================================================================
